---- MODULE Spec2Model ----
(***************************************************************************)
(* A model of kitex-contrib/config-file: the FileWatcher                   *)
(* (filewatcher/filewatcher.go), the ConfigMonitor (monitor/monitor.go),   *)
(* the ThreadSafeSet the reconciliation callbacks share and the retry      *)
(* reconciliation callback (client/retry.go).                              *)
(*                                                                         *)
(* The specifications share the variables: SpecWatcher (the FileWatcher    *)
(* and its dispatch goroutine; FairWatcher adds a fair select),            *)
(* SpecMonitor (the ConfigMonitor over a FileWatcher dispatched by its     *)
(* callers), SpecLifecycle (the ConfigMonitor started and stopped over a   *)
(* FileWatcher that is started and stopped), SpecSet (concurrent           *)
(* DiffAndEmplace calls), SpecRetry and SpecBreaker (runs of the retry     *)
(* and of the circuit-breaker callback, one generation after another),     *)
(* SpecRetryConc (interleaved runs of the retry callback), SpecConc and    *)
(* SpecStart (the calls of two goroutines, statement by statement).        *)
(*                                                                         *)
(* In all but SpecConc and SpecStart every public method is one action.    *)
(* The dispatch goroutine (fileWatcher.start) is one action per iteration  *)
(* of its select loop.                                                     *)
(* The variables invoked, notified, parseRes and lastOp record what the    *)
(* last call did (which callbacks it ran, what it returned); each action   *)
(* overwrites them.                                                        *)
(***************************************************************************)
EXTENDS Naturals, Sequences, FiniteSets, TLC

VARIABLES
    \* ---- fileWatcher (filewatcher.go:38-44) and the file system
    fwCallbacks,  \* fw.callbacks: key -> callback, NoCb where the key is absent
    done,         \* fw.done: "open" or "closed"
    loop,         \* the goroutine of StartWatching: "idle", "running", "exited"
    watcher,      \* fw.watcher: "new", "watching", "orphaned", "closed"
    events,       \* fw.watcher.Events and .Errors, not yet received
    file,         \* the contents of the file at fw.filePath
    fileExists,   \* whether the file is there
    invoked,      \* the <<key, callback>> pairs the last call invoked
    crashed,      \* a panic reached the top of a goroutine that does not recover
    \* ---- ConfigMonitor (monitor.go:27-34)
    manager,      \* c.manager: "nil" or "set"
    config,       \* c.config
    monCallbacks, \* c.callbacks: key -> callback, NoCb where the key is absent
    notified,     \* the <<key, callback>> pairs the last parseHandler run invoked
    parseRes,     \* how the last call's parseHandler run ended ("none": no run)
    \* ---- the last call
    lastOp,
    \* ---- utils.ThreadSafeSet and the goroutines calling DiffAndEmplace on it
    ts,           \* ts.s: the current key set
    tsLock,       \* the caller holding ts's lock, 0 when it is free
    spc,          \* per caller: "idle", "lock", "diff", "emplace", "unlock"
    sarg,         \* per caller: the argument `other`
    sout,         \* per caller: the slice `out` it returns
    \* ---- initRetryContainer: the retry container and the runs of onChangeCallback
    container,    \* retryContainer: method -> installed policy, NoPolicy where none
    rpc,          \* per run: "idle", "range", "diff", "delete", "done"
    rcs,          \* per run: watcher.Config().Retry as the run read it
    todo,         \* per run: the methods `range rcs` has not reached yet
    rset,         \* per run: the local `set`
    removed,      \* per run: what DiffAndEmplace returned, not yet deleted
    \* ---- initCircuitBreaker: the CBSuite and the run of onChangeCallback
    suite,        \* cb: circuit-breaker key -> installed CBConfig, NoCBConfig where none
    lcb,          \* lcb.s: the key set of the callback's ThreadSafeSet
    cpc,          \* the run: "idle", "range", "diff", "reset", "done"
    configs,      \* watcher.Config().Circuitbreaker as the run read it
    ctodo,        \* the methods `range configs` has not reached yet
    cset,         \* the local `set`
    cremoved,     \* what DiffAndEmplace returned, not yet reset
    \* ---- the calls in progress, statement by statement
    thr,          \* per goroutine: the call it is in, where, and the bytes it read
    fwMu,         \* fw.mu: "free" or the goroutine holding it
    cMu,          \* c.mu: "free" or the goroutine holding it
    \* ---- history
    removeHandled \* the dispatch goroutine has received a Remove event

fwVars == <<fwCallbacks, done, loop, watcher, events, file, fileExists, invoked, crashed>>

monVars == <<manager, config, monCallbacks, notified, parseRes>>

setVars == <<ts, tsLock, spc, sarg, sout>>

retryVars == <<container, rpc, rcs, todo, rset, removed>>

cbVars == <<suite, lcb, cpc, configs, ctodo, cset, cremoved>>

histVars == <<removeHandled>>

concVars == <<thr, fwMu, cMu>>

extVars == <<cbVars, histVars, concVars>>

vars == <<fwVars, monVars, lastOp, setVars, retryVars, extVars>>

\* ------------------------------------------------------------------ bounds

\* Events and errors the fsnotify channels hold before the loop receives them.
MaxEvents == 2

\* Goroutines calling DiffAndEmplace on one ThreadSafeSet at the same time.
NumCallers == 2

\* ------------------------------------------------------------------ values

Nil == "nil"

NoCb == "nocb"

\* The key of the one ConfigMonitor, and the registry keys of the FileWatcher.
MonKey == "svcA"

FwKeys == {MonKey, "k2"}

\* Callbacks a consumer registers with the FileWatcher; cbPanic panics when called.
RawCbs == {"cbRaw", "cbPanic"}

\* c.parseHandler, which only ConfigMonitor.Start registers.
ParseCb == "parseHandler"

\* The ConfigMonitor's registry.
MonKeys == {"retry", "cb"}

MonCbs == {"f1", "f2"}

\* File contents: a document that does not decode, or one that decodes to a
\* manager holding one sub-config per service key.
Docs ==
    { [valid |-> FALSE, svcs |-> <<>>] } \cup
    { [valid |-> TRUE, svcs |-> f] : f \in { (MonKey :> "v1"), (MonKey :> "v2"), ("svcB" :> "v1") } }

InitDoc == [valid |-> TRUE, svcs |-> (MonKey :> "v1")]

\* The goroutines of the statement-level specifications: the dispatch
\* goroutine and one goroutine of a user.
Threads == {"loop", "caller"}

\* A goroutine that is in no call.
NoCall == [op |-> "none", st |-> "none", data |-> [valid |-> FALSE, svcs |-> <<>>]]

\* The methods a config names, the keys of a ThreadSafeSet.
Methods == {"M1", "M2"}

\* The goroutines that run the consumers' callbacks: the dispatch goroutine and
\* a caller of CallOnceAll / Start.
RetryProcs == {"loop", "caller"}

SetProcs == 1..NumCallers

NoPolicy == [BackupPolicy |-> "none", FailurePolicy |-> "none"]

\* retry.Policy of one method: each of the two pointers nil or set.
Policies == [BackupPolicy : {Nil, "b1"}, FailurePolicy : {Nil, "f1", "f2"}]

\* watcher.Config().Retry: a nil map, or a map from some methods to policies.
NilRetry == [isNil |-> TRUE, pol |-> <<>>]

RetryConfigs ==
    {NilRetry} \cup
    UNION { { [isNil |-> FALSE, pol |-> f] : f \in [D -> Policies] } : D \in SUBSET Methods }

\* The generations all of whose entries pass the checks of onChangeCallback:
\* a non-nil map with exactly one policy set for every method.
ValidRetryConfigs ==
    { g \in RetryConfigs :
        /\ ~g.isNil
        /\ \A m \in DOMAIN g.pol :
             (g.pol[m].BackupPolicy = Nil) # (g.pol[m].FailurePolicy = Nil) }

\* Service and method names are strings, here sequences of characters.
ToService == <<"s", "v">>

CbMethods == {<<"a">>, <<"b">>}

\* circuitbreak.CBConfig values; GetDefaultCBConfig() is DefaultCBConfig.
CBConfigs == {"c1", "c2"}

DefaultCBConfig == "default"

NoCBConfig == "nocfg"

\* The values of watcher.Config().Circuitbreaker: method -> *CBConfig.  A nil
\* map ranges like the empty one.
CbGenerations == UNION { [S -> CBConfigs] : S \in SUBSET CbMethods }

\* genServiceCBKey (client/retry.go:143-151): toService, '/', method.
genServiceCBKey(toService, method) == toService \o <<"/">> \o method

\* The keys the CBSuite is given.
CbKeys == { genServiceCBKey(ToService, m) : m \in CbMethods }

Perms(S) == { s \in [1..Cardinality(S) -> S] : \A i, j \in 1..Cardinality(S) : s[i] = s[j] => i = j }

Range(s) == { s[i] : i \in DOMAIN s }

Registered(cbs) == { k \in DOMAIN cbs : cbs[k] # NoCb }

\* What lastOp holds: the call, its key and callback arguments, how it ended
\* ("ok", "warn": ok with a warning logged, "err": an error returned or logged,
\* "panicCb": a callback panicked, "panicClose": close of a closed channel).
OpCb(op, key, cb, ret) == [op |-> op, key |-> key, cb |-> cb, ret |-> ret]

Op(op, key, ret) == OpCb(op, key, "nil", ret)

\* ------------------------------------------------------------------ parser

\* parser.Decode: fills the manager from the bytes or fails.
Decode(data) ==
    IF data.valid THEN [err |-> FALSE, mgr |-> data.svcs] ELSE [err |-> TRUE, mgr |-> <<>>]

\* ConfigManager.GetConfig: the sub-config of key, nil when the key is not there.
GetConfig(mgr, key) ==
    IF key \in DOMAIN mgr THEN mgr[key] ELSE Nil

\* ------------------------------------------------------------------ FileWatcher

\* RegisterCallback without the check of line 82: the new callback replaces the old.
FwRegisterOverwrite(cbs, cb, key) ==
    [cbs |-> [cbs EXCEPT ![key] = cb], ret |-> "ok"]

\* fileWatcher.RegisterCallback on the registry cbs.
FwRegister(cbs, cb, key) ==
    IF cbs[key] # NoCb
    THEN [cbs |-> cbs, ret |-> "err"]
    ELSE [cbs |-> [cbs EXCEPT ![key] = cb], ret |-> "ok"]

\* DeregisterCallback that drops the whole map instead of deleting one key.
FwDeregisterClear(cbs, key) ==
    IF cbs[key] = NoCb
    THEN [cbs |-> cbs, ret |-> "warn"]
    ELSE [cbs |-> [k \in DOMAIN cbs |-> NoCb], ret |-> "ok"]

\* fileWatcher.DeregisterCallback on the registry cbs.
FwDeregister(cbs, key) ==
    IF cbs[key] = NoCb
    THEN [cbs |-> cbs, ret |-> "warn"]
    ELSE [cbs |-> [cbs EXCEPT ![key] = NoCb], ret |-> "ok"]

\* ------------------------------------------------------------------ ConfigMonitor

\* ConfigMonitor.Config
Config == config

\* ConfigMonitor.RegisterCallback on the registry cbs: it returns nothing.
MonRegister(cbs, cb, key) ==
    [cbs |-> [cbs EXCEPT ![key] = cb], ret |-> "ok"]

\* ConfigMonitor.DeregisterCallback on the registry cbs.
MonDeregister(cbs, key) ==
    IF cbs[key] = NoCb
    THEN [cbs |-> cbs, ret |-> "warn"]
    ELSE [cbs |-> [cbs EXCEPT ![key] = NoCb], ret |-> "ok"]

\* parseHandler that stores GetConfig's result before it looks at Decode's error.
ParseHandlerStoreFirst(data, cfg, cbs) ==
    LET d == Decode(data)
        c == GetConfig(d.mgr, MonKey)
    IN  IF d.err
        THEN [config |-> c, notified |-> {}, res |-> "decodeErr"]
        ELSE IF c = Nil
        THEN [config |-> c, notified |-> {}, res |-> "noKey"]
        ELSE [config |-> c,
              notified |-> { <<k, cbs[k]>> : k \in Registered(cbs) },
              res |-> "updated"]

\* ConfigMonitor.parseHandler on the bytes data, with c.config = cfg and
\* c.callbacks = cbs: the new c.config, the callbacks invoked, how it ended.
ParseHandler(data, cfg, cbs) ==
    LET d == Decode(data)
        c == GetConfig(d.mgr, MonKey)
    IN  IF d.err
        THEN [config |-> cfg, notified |-> {}, res |-> "decodeErr"]
        ELSE IF c = Nil
        THEN [config |-> c, notified |-> {}, res |-> "noKey"]
        ELSE [config |-> c,
              notified |-> { <<k, cbs[k]>> : k \in Registered(cbs) },
              res |-> "updated"]

\* ------------------------------------------------------------------ dispatch

\* The callbacks a range over fw.callbacks in the order `order` calls: all of
\* them, or those up to the first that panics.
Called(order) ==
    LET bad == { i \in DOMAIN order : fwCallbacks[order[i]] = "cbPanic" }
    IN  IF bad = {} THEN order
        ELSE SubSeq(order, 1, CHOOSE i \in bad : \A j \in bad : i <= j)

Panics(order) == \E i \in DOMAIN order : fwCallbacks[order[i]] = "cbPanic"

\* The monitor's variables when nothing runs parseHandler.
NoParse ==
    /\ notified' = {}
    /\ parseRes' = "none"
    /\ UNCHANGED <<config, monCallbacks, manager>>

\* parseHandler(data) as a callback.
RunParse(data) ==
    LET r == ParseHandler(data, config, monCallbacks)
    IN  /\ config' = r.config
        /\ notified' = r.notified
        /\ parseRes' = r.res
        /\ UNCHANGED <<monCallbacks, manager>>

\* The callbacks under the keys of `called`, in that order, on data.
RunCallbacks(called, data) ==
    /\ invoked' = { <<called[i], fwCallbacks[called[i]]>> : i \in DOMAIN called }
    /\ IF \E i \in DOMAIN called : fwCallbacks[called[i]] = ParseCb
       THEN RunParse(data)
       ELSE NoParse

Init ==
    /\ fwCallbacks = [k \in FwKeys |-> NoCb]
    /\ done = "open"
    /\ loop = "idle"
    /\ watcher = "new"
    /\ events = <<>>
    /\ file = InitDoc
    /\ fileExists = TRUE
    /\ invoked = {}
    /\ crashed = FALSE
    /\ manager = Nil
    /\ config = Nil
    /\ monCallbacks = [k \in MonKeys |-> NoCb]
    /\ notified = {}
    /\ parseRes = "none"
    /\ lastOp = Op("new", Nil, "ok")
    /\ ts = {}
    /\ tsLock = 0
    /\ spc = [p \in SetProcs |-> "idle"]
    /\ sarg = [p \in SetProcs |-> {}]
    /\ sout = [p \in SetProcs |-> <<>>]
    /\ container = [m \in Methods |-> NoPolicy]
    /\ rpc = [p \in RetryProcs |-> "idle"]
    /\ rcs = [p \in RetryProcs |-> NilRetry]
    /\ todo = [p \in RetryProcs |-> {}]
    /\ rset = [p \in RetryProcs |-> {}]
    /\ removed = [p \in RetryProcs |-> <<>>]
    /\ suite = [k \in CbKeys |-> NoCBConfig]
    /\ lcb = {}
    /\ cpc = "idle"
    /\ configs = <<>>
    /\ ctodo = {}
    /\ cset = {}
    /\ cremoved = <<>>
    /\ removeHandled = FALSE
    /\ thr = [t \in Threads |-> NoCall]
    /\ fwMu = "free"
    /\ cMu = "free"

\* ------------------------------------------------------------------ file system

\* The actions below that run no FileWatcher callback.
NoDispatch ==
    /\ invoked' = {}
    /\ NoParse

\* A process rewrites the file; fsnotify reports a Write while the path is watched.
WriteFile(d) ==
    /\ watcher = "watching" => Len(events) < MaxEvents
    /\ file' = d
    /\ fileExists' = TRUE
    /\ events' = IF watcher = "watching" THEN Append(events, "Write") ELSE events
    /\ lastOp' = Op("WriteFile", Nil, "ok")
    /\ NoDispatch
    /\ UNCHANGED <<fwCallbacks, done, loop, watcher, crashed>>

\* A process removes the file; fsnotify reports a Remove and the watch is gone.
RemoveFile ==
    /\ fileExists
    /\ watcher = "watching" => Len(events) < MaxEvents
    /\ fileExists' = FALSE
    /\ file' = InitDoc
    /\ events' = IF watcher = "watching" THEN Append(events, "Remove") ELSE events
    /\ watcher' = IF watcher = "watching" THEN "orphaned" ELSE watcher
    /\ lastOp' = Op("RemoveFile", Nil, "ok")
    /\ NoDispatch
    /\ UNCHANGED <<fwCallbacks, done, loop, crashed>>

\* A process replaces the file by renaming another one over it.  A backend
\* that follows the path (kqueue, ReadDirectoryChangesW) reports the Remove of
\* the old file and goes on watching the new one.
ReplaceFile(d) ==
    /\ fileExists
    /\ watcher = "watching"
    /\ Len(events) < MaxEvents
    /\ file' = d
    /\ events' = Append(events, "Remove")
    /\ lastOp' = Op("ReplaceFile", Nil, "ok")
    /\ NoDispatch
    /\ UNCHANGED <<fwCallbacks, done, loop, watcher, fileExists, crashed>>

\* fsnotify reports an event that is neither Write nor Remove ("Chmod"), or an
\* error on watcher.Errors ("Error").
OtherEvent(e) ==
    /\ watcher = "watching"
    /\ Len(events) < MaxEvents
    /\ events' = Append(events, e)
    /\ lastOp' = Op("OtherEvent", Nil, "ok")
    /\ NoDispatch
    /\ UNCHANGED <<fwCallbacks, done, loop, watcher, file, fileExists, crashed>>

\* ------------------------------------------------------------------ FileWatcher calls

FwRegisterCallback(cb, key) ==
    LET r == FwRegister(fwCallbacks, cb, key)
    IN  /\ fwCallbacks' = r.cbs
        /\ lastOp' = OpCb("FwRegisterCallback", key, cb, r.ret)
        /\ NoDispatch
        /\ UNCHANGED <<done, loop, watcher, events, file, fileExists, crashed>>

FwDeregisterCallback(key) ==
    LET r == FwDeregister(fwCallbacks, key)
    IN  /\ fwCallbacks' = r.cbs
        /\ lastOp' = Op("FwDeregisterCallback", key, r.ret)
        /\ NoDispatch
        /\ UNCHANGED <<done, loop, watcher, events, file, fileExists, crashed>>

\* StartWatching: watcher.Add fails on a missing path or a closed watcher;
\* otherwise the goroutine running fw.start() is spawned.  Callers start a
\* FileWatcher while no dispatch goroutine of it runs.
StartWatching ==
    /\ loop # "running"
    /\ IF fileExists /\ watcher = "new"
       THEN /\ watcher' = "watching"
            /\ loop' = "running"
            /\ lastOp' = Op("StartWatching", Nil, "ok")
       ELSE /\ lastOp' = Op("StartWatching", Nil, "err")
            /\ UNCHANGED <<watcher, loop>>
    /\ NoDispatch
    /\ UNCHANGED <<fwCallbacks, done, events, file, fileExists, crashed>>

\* close(fw.done): closing a closed channel panics.
CloseDone(d) ==
    IF d = "closed" THEN [done |-> d, ret |-> "panicClose"] ELSE [done |-> "closed", ret |-> "ok"]

\* StopWatching called by a user of the FileWatcher: a panic there is not recovered.
StopWatching ==
    LET r == CloseDone(done)
    IN  /\ done' = r.done
        /\ crashed' = (r.ret # "ok")
        /\ lastOp' = Op("StopWatching", Nil, r.ret)
        /\ NoDispatch
        /\ UNCHANGED <<fwCallbacks, loop, watcher, events, file, fileExists>>

\* CallOnceAll called by a user of the FileWatcher.
CallOnceAll ==
    /\ IF ~fileExists
       THEN /\ lastOp' = Op("CallOnceAll", Nil, "err")
            /\ NoDispatch
            /\ UNCHANGED crashed
       ELSE \E order \in Perms(Registered(fwCallbacks)) :
              /\ RunCallbacks(Called(order), file)
              /\ crashed' = Panics(order)
              /\ lastOp' = Op("CallOnceAll", Nil, IF Panics(order) THEN "panicCb" ELSE "ok")
    /\ UNCHANGED <<fwCallbacks, done, loop, watcher, events, file, fileExists>>

\* CallOnceSpecific called by a user of the FileWatcher.
CallOnceSpecific(key) ==
    /\ IF ~fileExists \/ fwCallbacks[key] = NoCb
       THEN /\ lastOp' = Op("CallOnceSpecific", key, "err")
            /\ NoDispatch
            /\ UNCHANGED crashed
       ELSE /\ RunCallbacks(<<key>>, file)
            /\ crashed' = Panics(<<key>>)
            /\ lastOp' = Op("CallOnceSpecific", key, IF Panics(<<key>>) THEN "panicCb" ELSE "ok")
    /\ UNCHANGED <<fwCallbacks, done, loop, watcher, events, file, fileExists>>

\* ------------------------------------------------------------------ fw.start()

\* The loop leaves: the deferred fw.watcher.Close() runs.
LoopExit ==
    /\ loop' = "exited"
    /\ watcher' = "closed"

\* case event := <-fw.watcher.Events, event.Has(fsnotify.Write): CallOnceAll.
\* A read error is logged; a panic of a callback unwinds start() and is
\* recovered by the goroutine's deferred function, which ends the goroutine.
LoopWrite ==
    /\ loop = "running"
    /\ events # <<>> /\ Head(events) = "Write"
    /\ events' = Tail(events)
    /\ IF ~fileExists
       THEN /\ lastOp' = Op("LoopWrite", Nil, "err")
            /\ NoDispatch
            /\ UNCHANGED <<loop, watcher>>
       ELSE \E order \in Perms(Registered(fwCallbacks)) :
              /\ RunCallbacks(Called(order), file)
              /\ IF Panics(order)
                 THEN /\ LoopExit
                      /\ lastOp' = Op("LoopWrite", Nil, "panicCb")
                 ELSE /\ UNCHANGED <<loop, watcher>>
                      /\ lastOp' = Op("LoopWrite", Nil, "ok")
    /\ UNCHANGED <<fwCallbacks, done, file, fileExists, crashed>>

\* case event, event.Has(fsnotify.Remove): fw.StopWatching(); a panic of
\* close(fw.done) ends the goroutine as above.
LoopRemove ==
    /\ loop = "running"
    /\ events # <<>> /\ Head(events) = "Remove"
    /\ events' = Tail(events)
    /\ LET r == CloseDone(done)
       IN  /\ done' = r.done
           /\ lastOp' = Op("LoopRemove", Nil, r.ret)
           /\ IF r.ret = "ok" THEN UNCHANGED <<loop, watcher>> ELSE LoopExit
    /\ removeHandled' = TRUE
    /\ NoDispatch
    /\ UNCHANGED <<fwCallbacks, file, fileExists, crashed>>

\* An event with neither bit, or case err := <-fw.watcher.Errors: logged.
LoopOther ==
    /\ loop = "running"
    /\ events # <<>> /\ Head(events) \in {"Chmod", "Error"}
    /\ events' = Tail(events)
    /\ lastOp' = Op("LoopOther", Nil, "ok")
    /\ NoDispatch
    /\ UNCHANGED <<fwCallbacks, done, loop, watcher, file, fileExists, crashed>>

\* case <-fw.done with a break in place of the return: the select is left,
\* the for loop is not.
LoopDoneBreak ==
    /\ loop = "running"
    /\ done = "closed"
    /\ lastOp' = Op("LoopDone", Nil, "ok")
    /\ NoDispatch
    /\ UNCHANGED <<fwCallbacks, done, loop, watcher, events, file, fileExists, crashed>>

\* case <-fw.done: return.
LoopDone ==
    /\ loop = "running"
    /\ done = "closed"
    /\ LoopExit
    /\ lastOp' = Op("LoopDone", Nil, "ok")
    /\ NoDispatch
    /\ UNCHANGED <<fwCallbacks, done, events, file, fileExists, crashed>>

\* ------------------------------------------------------------------ ConfigMonitor calls

SetManager ==
    /\ manager' = "set"
    /\ notified' = {}
    /\ parseRes' = "none"
    /\ invoked' = {}
    /\ lastOp' = Op("SetManager", Nil, "ok")
    /\ UNCHANGED <<config, monCallbacks>>
    /\ UNCHANGED <<fwCallbacks, done, loop, watcher, events, file, fileExists, crashed>>

\* ConfigMonitor.Start
MonStart ==
    /\ invoked' = {}
    /\ IF manager = Nil \/ ~fileExists
       THEN /\ lastOp' = Op("MonStart", MonKey, "err")
            /\ NoParse
            /\ UNCHANGED fwCallbacks
       ELSE LET r == FwRegister(fwCallbacks, ParseCb, MonKey)
            IN  /\ RunParse(file)
                /\ fwCallbacks' = r.cbs
                /\ lastOp' = Op("MonStart", MonKey, r.ret)
    /\ UNCHANGED <<done, loop, watcher, events, file, fileExists, crashed>>

\* The loop of ConfigMonitor.Stop left after its first iteration.
DeregisterFirst(cbs, keys) ==
    IF keys = {} THEN cbs
    ELSE MonDeregister(cbs, CHOOSE k \in keys : TRUE).cbs

\* The loop of ConfigMonitor.Stop: DeregisterCallback for every key of c.callbacks.
RECURSIVE DeregisterEach(_, _)
DeregisterEach(cbs, keys) ==
    IF keys = {} THEN cbs
    ELSE LET k == CHOOSE k \in keys : TRUE
         IN  DeregisterEach(MonDeregister(cbs, k).cbs, keys \ {k})

\* ConfigMonitor.Stop
MonStop ==
    /\ monCallbacks' = DeregisterEach(monCallbacks, Registered(monCallbacks))
    /\ fwCallbacks' = FwDeregister(fwCallbacks, MonKey).cbs
    /\ lastOp' = Op("MonStop", MonKey, "ok")
    /\ invoked' = {}
    /\ notified' = {}
    /\ parseRes' = "none"
    /\ UNCHANGED <<config, manager>>
    /\ UNCHANGED <<done, loop, watcher, events, file, fileExists, crashed>>

MonRegisterCallback(cb, key) ==
    LET r == MonRegister(monCallbacks, cb, key)
    IN  /\ monCallbacks' = r.cbs
        /\ lastOp' = OpCb("MonRegisterCallback", key, cb, r.ret)
        /\ invoked' = {}
        /\ notified' = {}
        /\ parseRes' = "none"
        /\ UNCHANGED <<config, manager>>
        /\ UNCHANGED <<fwCallbacks, done, loop, watcher, events, file, fileExists, crashed>>

MonDeregisterCallback(key) ==
    LET r == MonDeregister(monCallbacks, key)
    IN  /\ monCallbacks' = r.cbs
        /\ lastOp' = Op("MonDeregisterCallback", key, r.ret)
        /\ invoked' = {}
        /\ notified' = {}
        /\ parseRes' = "none"
        /\ UNCHANGED <<config, manager>>
        /\ UNCHANGED <<fwCallbacks, done, loop, watcher, events, file, fileExists, crashed>>

\* ------------------------------------------------------------------ utils.ThreadSafeSet

\* A Lock() that does not wait for the holder.
LockIgnored(l) == TRUE

\* ts.Lock() can return: nobody holds the lock.
LockFree(l) == l = 0

\* The loop of DiffAndEmplace with the two sets swapped: the keys added.
DiffOutSwapped(s, other) == Perms({ k \in other : k \notin s })

\* The loop of DiffAndEmplace over the current set s: it appends to `out` every
\* key of s that `other` lacks, in the order the range over s yields them.
DiffOut(s, other) == Perms({ k \in s : k \notin other })

\* A goroutine calls ts.DiffAndEmplace(other).
SetCall(p, other) ==
    /\ spc[p] = "idle"
    /\ spc' = [spc EXCEPT ![p] = "lock"]
    /\ sarg' = [sarg EXCEPT ![p] = other]
    /\ sout' = [sout EXCEPT ![p] = <<>>]
    /\ UNCHANGED <<ts, tsLock>>

\* ts.Lock()
SetLock(p) ==
    /\ spc[p] = "lock"
    /\ LockFree(tsLock)
    /\ tsLock' = p
    /\ spc' = [spc EXCEPT ![p] = "diff"]
    /\ UNCHANGED <<ts, sarg, sout>>

\* The loop that fills `out`.
SetDiff(p) ==
    /\ spc[p] = "diff"
    /\ \E o \in DiffOut(ts, sarg[p]) : sout' = [sout EXCEPT ![p] = o]
    /\ spc' = [spc EXCEPT ![p] = "emplace"]
    /\ UNCHANGED <<ts, tsLock, sarg>>

\* ts.s = other
SetEmplace(p) ==
    /\ spc[p] = "emplace"
    /\ ts' = sarg[p]
    /\ spc' = [spc EXCEPT ![p] = "unlock"]
    /\ UNCHANGED <<tsLock, sarg, sout>>

\* The deferred ts.Unlock(); the call returns `out`.
SetUnlock(p) ==
    /\ spc[p] = "unlock"
    /\ tsLock' = 0
    /\ spc' = [spc EXCEPT ![p] = "idle"]
    /\ UNCHANGED <<ts, sarg, sout>>

\* ------------------------------------------------------------------ initRetryContainer

\* The two checks of onChangeCallback without the second: an entry with neither
\* policy passes.
ValidPolicyNoEmptyCheck(policy) ==
    ~(policy.BackupPolicy # Nil /\ policy.FailurePolicy # Nil)

\* The entry passes both checks of onChangeCallback (lines 49 and 55).
ValidPolicy(policy) ==
    /\ ~(policy.BackupPolicy # Nil /\ policy.FailurePolicy # Nil)
    /\ ~(policy.BackupPolicy = Nil /\ policy.FailurePolicy = Nil)

\* onChangeCallback starts on the goroutine p: rcs := watcher.Config().Retry,
\* and a nil rcs ends the run.
RetryBegin(p, g) ==
    /\ rpc[p] = "idle"
    /\ rcs' = [rcs EXCEPT ![p] = g]
    /\ rset' = [rset EXCEPT ![p] = {}]
    /\ todo' = [todo EXCEPT ![p] = DOMAIN g.pol]
    /\ rpc' = [rpc EXCEPT ![p] = IF g.isNil THEN "done"
                                 ELSE IF DOMAIN g.pol = {} THEN "diff" ELSE "range"]
    /\ UNCHANGED <<container, removed, ts, tsLock>>

\* One iteration of `for method, policy := range rcs`.
RetryRange(p, method) ==
    /\ rpc[p] = "range"
    /\ method \in todo[p]
    /\ rset' = [rset EXCEPT ![p] = @ \cup {method}]
    /\ todo' = [todo EXCEPT ![p] = @ \ {method}]
    /\ container' = IF ValidPolicy(rcs[p].pol[method])
                    THEN [container EXCEPT ![method] = rcs[p].pol[method]]
                    ELSE container
    /\ rpc' = [rpc EXCEPT ![p] = IF todo[p] = {method} THEN "diff" ELSE "range"]
    /\ UNCHANGED <<rcs, removed, ts, tsLock>>

\* ts.DiffAndEmplace(set), taken as one step under ts's lock.
RetryDiff(p) ==
    /\ rpc[p] = "diff"
    /\ LockFree(tsLock)
    /\ \E o \in DiffOut(ts, rset[p]) :
         /\ removed' = [removed EXCEPT ![p] = o]
         /\ rpc' = [rpc EXCEPT ![p] = IF o = <<>> THEN "done" ELSE "delete"]
    /\ ts' = rset[p]
    /\ UNCHANGED <<container, rcs, todo, rset, tsLock>>

\* One iteration of the loop over the removed methods: DeletePolicy(method).
RetryDelete(p) ==
    /\ rpc[p] = "delete"
    /\ container' = [container EXCEPT ![Head(removed[p])] = NoPolicy]
    /\ removed' = [removed EXCEPT ![p] = Tail(@)]
    /\ rpc' = [rpc EXCEPT ![p] = IF Len(removed[p]) = 1 THEN "done" ELSE "delete"]
    /\ UNCHANGED <<rcs, todo, rset, ts, tsLock>>

\* onChangeCallback has returned; its locals are gone.
RetryReturn(p) ==
    /\ rpc[p] = "done"
    /\ rpc' = [rpc EXCEPT ![p] = "idle"]
    /\ rcs' = [rcs EXCEPT ![p] = NilRetry]
    /\ todo' = [todo EXCEPT ![p] = {}]
    /\ rset' = [rset EXCEPT ![p] = {}]
    /\ removed' = [removed EXCEPT ![p] = <<>>]
    /\ UNCHANGED <<container, ts, tsLock>>

\* ------------------------------------------------------------------ calls, statement by statement
\* The calls of the FileWatcher and the ConfigMonitor as the statements that
\* touch fw.callbacks, c.callbacks, c.config and c.manager, so that calls of
\* two goroutines interleave.

Step(t, op, st, data) == thr' = [thr EXCEPT ![t] = [op |-> op, st |-> st, data |-> data]]

Return(t) == thr' = [thr EXCEPT ![t] = NoCall]

\* What no statement below changes.
ConcFrame == UNCHANGED <<done, loop, watcher, file, fileExists, invoked, crashed, lastOp>>

\* CallOnceAll and CallOnceSpecific: os.ReadFile(fw.filePath).  The dispatch
\* goroutine calls CallOnceAll when it receives a Write event.
DispatchRead(t, op) ==
    /\ thr[t] = NoCall
    /\ fileExists
    /\ IF t = "loop"
       THEN /\ op = "CallOnceAll"
            /\ loop = "running"
            /\ events # <<>> /\ Head(events) = "Write"
            /\ events' = Tail(events)
       ELSE UNCHANGED events
    /\ Step(t, op, "range", file)
    /\ UNCHANGED <<fwCallbacks, fwMu, cMu, manager, config, monCallbacks, notified, parseRes>>
    /\ ConcFrame

\* `for _, v := range fw.callbacks` and `fw.callbacks[key]`, without fw.mu:
\* the parse handler is entered when it is registered.
DispatchInvoke(t) ==
    /\ thr[t].st = "range"
    /\ IF fwCallbacks[MonKey] = ParseCb
       THEN Step(t, thr[t].op, "parse", thr[t].data)
       ELSE Return(t)
    /\ UNCHANGED <<fwCallbacks, events, fwMu, cMu, manager, config, monCallbacks, notified, parseRes>>
    /\ ConcFrame

\* parseHandler runs to its end, without c.mu; Start goes on to register it.
ParseReturn(t) ==
    /\ thr[t].st = "parse"
    /\ RunParse(thr[t].data)
    /\ IF thr[t].op = "Start"
       THEN Step(t, "Start", "register", thr[t].data)
       ELSE Return(t)
    /\ UNCHANGED <<fwCallbacks, events, fwMu, cMu>>
    /\ ConcFrame

\* ConfigMonitor.Start: os.ReadFile, then parseHandler(data) called directly.
StartRead(t) ==
    /\ thr[t] = NoCall
    /\ manager # Nil
    /\ fileExists
    /\ Step(t, "Start", "parse", file)
    /\ UNCHANGED <<fwCallbacks, events, fwMu, cMu, manager, config, monCallbacks, notified, parseRes>>
    /\ ConcFrame

\* fw.mu.Lock() of fileWatcher.RegisterCallback and DeregisterCallback; op
\* "Start" is the RegisterCallback at the end of ConfigMonitor.Start.
FwLock(t, op) ==
    /\ IF op = "Start" THEN thr[t].st = "register" ELSE thr[t] = NoCall
    /\ fwMu = "free"
    /\ fwMu' = t
    /\ Step(t, op, "fwLocked", thr[t].data)
    /\ UNCHANGED <<fwCallbacks, events, cMu, manager, config, monCallbacks, notified, parseRes>>
    /\ ConcFrame

\* The body of RegisterCallback / DeregisterCallback and the deferred Unlock.
FwUnlock(t) ==
    /\ thr[t].st = "fwLocked"
    /\ fwCallbacks' = CASE thr[t].op = "Start" -> FwRegister(fwCallbacks, ParseCb, MonKey).cbs
                         [] thr[t].op = "FwRegisterCallback" -> FwRegister(fwCallbacks, "cbRaw", "k2").cbs
                         [] OTHER -> FwDeregister(fwCallbacks, "k2").cbs
    /\ fwMu' = "free"
    /\ Return(t)
    /\ UNCHANGED <<events, cMu, manager, config, monCallbacks, notified, parseRes>>
    /\ ConcFrame

\* c.mu.Lock() of ConfigMonitor.RegisterCallback and DeregisterCallback.
MonLock(t, op) ==
    /\ thr[t] = NoCall
    /\ cMu = "free"
    /\ cMu' = t
    /\ Step(t, op, "cLocked", thr[t].data)
    /\ UNCHANGED <<fwCallbacks, events, fwMu, manager, config, monCallbacks, notified, parseRes>>
    /\ ConcFrame

\* The body of ConfigMonitor.RegisterCallback / DeregisterCallback and the Unlock.
MonUnlock(t) ==
    /\ thr[t].st = "cLocked"
    /\ monCallbacks' = IF thr[t].op = "MonRegisterCallback"
                       THEN MonRegister(monCallbacks, "f1", "retry").cbs
                       ELSE MonDeregister(monCallbacks, "retry").cbs
    /\ cMu' = "free"
    /\ Return(t)
    /\ UNCHANGED <<fwCallbacks, events, fwMu, manager, config, notified, parseRes>>
    /\ ConcFrame

\* Config(): the read of c.config, without c.mu.
ConfigRead(t) ==
    /\ thr[t] = NoCall
    /\ Step(t, "Config", "read", thr[t].data)
    /\ UNCHANGED <<fwCallbacks, events, fwMu, cMu, manager, config, monCallbacks, notified, parseRes>>
    /\ ConcFrame

ConfigReturn(t) ==
    /\ thr[t].st = "read"
    /\ Return(t)
    /\ UNCHANGED <<fwCallbacks, events, fwMu, cMu, manager, config, monCallbacks, notified, parseRes>>
    /\ ConcFrame

\* ConfigMonitor.Stop: `for k := range c.callbacks`, without c.mu.
StopRange(t) ==
    /\ thr[t] = NoCall
    /\ Step(t, "Stop", "stopRange", thr[t].data)
    /\ UNCHANGED <<fwCallbacks, events, fwMu, cMu, manager, config, monCallbacks, notified, parseRes>>
    /\ ConcFrame

\* The DeregisterCallback calls of Stop, each under its lock, and the return.
StopReturn(t) ==
    /\ thr[t].st = "stopRange"
    /\ fwMu = "free" /\ cMu = "free"
    /\ monCallbacks' = DeregisterEach(monCallbacks, Registered(monCallbacks))
    /\ fwCallbacks' = FwDeregister(fwCallbacks, MonKey).cbs
    /\ Return(t)
    /\ UNCHANGED <<events, fwMu, cMu, manager, config, notified, parseRes>>
    /\ ConcFrame

\* One access of a goroutine to shared state: the object, whether it writes,
\* and whether the object's lock is held.
Access(obj, write, locked) == [obj |-> obj, write |-> write, locked |-> locked]

\* The accesses the goroutine t is performing where it stands.
Accesses(t) ==
    CASE thr[t].st = "range" -> {Access("fw.callbacks", FALSE, FALSE)}
      [] thr[t].st = "parse" ->
           {Access("c.manager", TRUE, FALSE), Access("c.config", TRUE, FALSE),
            Access("c.callbacks", FALSE, FALSE)}
           \cup (IF thr[t].op = "Start" THEN {} ELSE {Access("fw.callbacks", FALSE, FALSE)})
      [] thr[t].st = "fwLocked" -> {Access("fw.callbacks", TRUE, fwMu = t)}
      [] thr[t].st = "cLocked" -> {Access("c.callbacks", TRUE, cMu = t)}
      [] thr[t].st = "read" -> {Access("c.config", FALSE, FALSE)}
      [] thr[t].st = "stopRange" -> {Access("c.callbacks", FALSE, FALSE)}
      [] OTHER -> {}

\* ------------------------------------------------------------------ initCircuitBreaker
\* The onChangeCallback of client/retry.go:115-130, one statement per action.

\* cb.UpdateServiceCBConfig(key, *config)
UpdateServiceCBConfig(m, key, cfg) == [m EXCEPT ![key] = cfg]

\* A removed method is deleted instead of reset.
DeleteServiceCBConfig(m, key) == [m EXCEPT ![key] = NoCBConfig]

\* cb.UpdateServiceCBConfig(key, circuitbreak.GetDefaultCBConfig())
ResetServiceCBConfig(m, key) == UpdateServiceCBConfig(m, key, DefaultCBConfig)

\* set := utils.Set{}; configs := watcher.Config().Circuitbreaker
CbBegin(g) ==
    /\ cpc = "idle"
    /\ configs' = g
    /\ cset' = {}
    /\ ctodo' = DOMAIN g
    /\ cpc' = IF DOMAIN g = {} THEN "diff" ELSE "range"
    /\ UNCHANGED <<suite, lcb, cremoved>>

\* One iteration of `for method, config := range configs`.
CbRange(method) ==
    /\ cpc = "range"
    /\ method \in ctodo
    /\ cset' = cset \cup {method}
    /\ suite' = UpdateServiceCBConfig(suite, genServiceCBKey(ToService, method), configs[method])
    /\ ctodo' = ctodo \ {method}
    /\ cpc' = IF ctodo' = {} THEN "diff" ELSE "range"
    /\ UNCHANGED <<lcb, configs, cremoved>>

\* lcb.DiffAndEmplace(set)
CbDiff ==
    /\ cpc = "diff"
    /\ \E o \in DiffOut(lcb, cset) :
         /\ cremoved' = o
         /\ cpc' = IF o = <<>> THEN "done" ELSE "reset"
    /\ lcb' = cset
    /\ UNCHANGED <<suite, configs, ctodo, cset>>

\* One iteration of the range over the removed methods.
CbReset ==
    /\ cpc = "reset"
    /\ suite' = ResetServiceCBConfig(suite, genServiceCBKey(ToService, Head(cremoved)))
    /\ cremoved' = Tail(cremoved)
    /\ cpc' = IF cremoved' = <<>> THEN "done" ELSE "reset"
    /\ UNCHANGED <<lcb, configs, ctodo, cset>>

\* onChangeCallback returns.
CbReturn ==
    /\ cpc = "done"
    /\ cpc' = "idle"
    /\ configs' = <<>>
    /\ cset' = {}
    /\ UNCHANGED <<suite, lcb, ctodo, cremoved>>

\* ------------------------------------------------------------------ specifications

\* The FileWatcher with its dispatch goroutine, under consumers that register
\* byte callbacks.
NextWatcher ==
    \/ ~crashed /\ \E d \in Docs : WriteFile(d) /\ UNCHANGED <<setVars, retryVars, extVars>>
    \/ ~crashed /\ RemoveFile /\ UNCHANGED <<setVars, retryVars, extVars>>
    \/ ~crashed /\ \E d \in Docs : ReplaceFile(d) /\ UNCHANGED <<setVars, retryVars, extVars>>
    \/ ~crashed /\ \E e \in {"Chmod", "Error"} : OtherEvent(e) /\ UNCHANGED <<setVars, retryVars, extVars>>
    \/ ~crashed /\ \E cb \in RawCbs, k \in FwKeys : FwRegisterCallback(cb, k) /\ UNCHANGED <<setVars, retryVars, extVars>>
    \/ ~crashed /\ \E k \in FwKeys : FwDeregisterCallback(k) /\ UNCHANGED <<setVars, retryVars, extVars>>
    \/ ~crashed /\ StartWatching /\ UNCHANGED <<setVars, retryVars, extVars>>
    \/ ~crashed /\ StopWatching /\ UNCHANGED <<setVars, retryVars, extVars>>
    \/ ~crashed /\ CallOnceAll /\ UNCHANGED <<setVars, retryVars, extVars>>
    \/ ~crashed /\ \E k \in FwKeys : CallOnceSpecific(k) /\ UNCHANGED <<setVars, retryVars, extVars>>
    \/ ~crashed /\ LoopWrite /\ UNCHANGED <<setVars, retryVars, extVars>>
    \/ ~crashed /\ LoopRemove /\ UNCHANGED <<setVars, retryVars, cbVars, concVars>>
    \/ ~crashed /\ LoopOther /\ UNCHANGED <<setVars, retryVars, extVars>>
    \/ ~crashed /\ LoopDone /\ UNCHANGED <<setVars, retryVars, extVars>>

SpecWatcher == Init /\ [][NextWatcher]_vars

\* The same under a fair select: the case <-fw.done of the dispatch goroutine
\* is not passed over for ever while it is ready (the runtime picks among the
\* ready cases of a select at random).
FairWatcher ==
    /\ Init
    /\ [][NextWatcher]_vars
    /\ WF_vars(~crashed /\ LoopDone /\ UNCHANGED <<setVars, retryVars, extVars>>)

\* The ConfigMonitor over a FileWatcher whose callers trigger every dispatch
\* themselves (CallOnceAll, CallOnceSpecific).
NextMonitor ==
    \/ ~crashed /\ \E d \in Docs : WriteFile(d) /\ UNCHANGED <<setVars, retryVars, extVars>>
    \/ ~crashed /\ RemoveFile /\ UNCHANGED <<setVars, retryVars, extVars>>
    \/ ~crashed /\ \E cb \in RawCbs, k \in FwKeys : FwRegisterCallback(cb, k) /\ UNCHANGED <<setVars, retryVars, extVars>>
    \/ ~crashed /\ \E k \in FwKeys : FwDeregisterCallback(k) /\ UNCHANGED <<setVars, retryVars, extVars>>
    \/ ~crashed /\ CallOnceAll /\ UNCHANGED <<setVars, retryVars, extVars>>
    \/ ~crashed /\ \E k \in FwKeys : CallOnceSpecific(k) /\ UNCHANGED <<setVars, retryVars, extVars>>
    \/ ~crashed /\ SetManager /\ UNCHANGED <<setVars, retryVars, extVars>>
    \/ ~crashed /\ MonStart /\ UNCHANGED <<setVars, retryVars, extVars>>
    \/ ~crashed /\ MonStop /\ UNCHANGED <<setVars, retryVars, extVars>>
    \/ ~crashed /\ \E cb \in MonCbs, k \in MonKeys : MonRegisterCallback(cb, k) /\ UNCHANGED <<setVars, retryVars, extVars>>
    \/ ~crashed /\ \E k \in MonKeys : MonDeregisterCallback(k) /\ UNCHANGED <<setVars, retryVars, extVars>>

SpecMonitor == Init /\ [][NextMonitor]_vars

\* The ConfigMonitor started and stopped over a FileWatcher that is itself
\* started and stopped, with other consumers registered under other keys.
NextLifecycle ==
    \/ ~crashed /\ \E cb \in RawCbs, k \in FwKeys : FwRegisterCallback(cb, k) /\ UNCHANGED <<setVars, retryVars, extVars>>
    \/ ~crashed /\ StartWatching /\ UNCHANGED <<setVars, retryVars, extVars>>
    \/ ~crashed /\ StopWatching /\ UNCHANGED <<setVars, retryVars, extVars>>
    \/ ~crashed /\ LoopDone /\ UNCHANGED <<setVars, retryVars, extVars>>
    \/ ~crashed /\ SetManager /\ UNCHANGED <<setVars, retryVars, extVars>>
    \/ ~crashed /\ MonStart /\ UNCHANGED <<setVars, retryVars, extVars>>
    \/ ~crashed /\ MonStop /\ UNCHANGED <<setVars, retryVars, extVars>>
    \/ ~crashed /\ \E cb \in MonCbs, k \in MonKeys : MonRegisterCallback(cb, k) /\ UNCHANGED <<setVars, retryVars, extVars>>

SpecLifecycle == Init /\ [][NextLifecycle]_vars

\* The FileWatcher and the ConfigMonitor called by the dispatch goroutine and
\* by a user's goroutine at the same time, statement by statement.
NextConc ==
    \/ \E d \in Docs : WriteFile(d) /\ UNCHANGED <<setVars, retryVars, extVars>>
    \/ StartWatching /\ UNCHANGED <<setVars, retryVars, extVars>>
    \/ SetManager /\ UNCHANGED <<setVars, retryVars, extVars>>
    \/ \E t \in Threads, op \in {"CallOnceAll", "CallOnceSpecific"} :
         DispatchRead(t, op) /\ UNCHANGED <<setVars, retryVars, cbVars, histVars>>
    \/ \E t \in Threads : DispatchInvoke(t) /\ UNCHANGED <<setVars, retryVars, cbVars, histVars>>
    \/ \E t \in Threads : ParseReturn(t) /\ UNCHANGED <<setVars, retryVars, cbVars, histVars>>
    \/ StartRead("caller") /\ UNCHANGED <<setVars, retryVars, cbVars, histVars>>
    \/ \E op \in {"Start", "FwRegisterCallback", "FwDeregisterCallback"} :
         FwLock("caller", op) /\ UNCHANGED <<setVars, retryVars, cbVars, histVars>>
    \/ FwUnlock("caller") /\ UNCHANGED <<setVars, retryVars, cbVars, histVars>>
    \/ \E op \in {"MonRegisterCallback", "MonDeregisterCallback"} :
         MonLock("caller", op) /\ UNCHANGED <<setVars, retryVars, cbVars, histVars>>
    \/ MonUnlock("caller") /\ UNCHANGED <<setVars, retryVars, cbVars, histVars>>
    \/ ConfigRead("caller") /\ UNCHANGED <<setVars, retryVars, cbVars, histVars>>
    \/ ConfigReturn("caller") /\ UNCHANGED <<setVars, retryVars, cbVars, histVars>>
    \/ StopRange("caller") /\ UNCHANGED <<setVars, retryVars, cbVars, histVars>>
    \/ StopReturn("caller") /\ UNCHANGED <<setVars, retryVars, cbVars, histVars>>

SpecConc == Init /\ [][NextConc]_vars

\* ConfigMonitor.Start called on a FileWatcher that is already watching, while
\* the file is written and the dispatch goroutine dispatches.
NextStart ==
    \/ \E d \in Docs : WriteFile(d) /\ UNCHANGED <<setVars, retryVars, extVars>>
    \/ StartWatching /\ UNCHANGED <<setVars, retryVars, extVars>>
    \/ SetManager /\ UNCHANGED <<setVars, retryVars, extVars>>
    \/ DispatchRead("loop", "CallOnceAll") /\ UNCHANGED <<setVars, retryVars, cbVars, histVars>>
    \/ DispatchInvoke("loop") /\ UNCHANGED <<setVars, retryVars, cbVars, histVars>>
    \/ \E t \in Threads : ParseReturn(t) /\ UNCHANGED <<setVars, retryVars, cbVars, histVars>>
    \/ loop = "running" /\ StartRead("caller") /\ UNCHANGED <<setVars, retryVars, cbVars, histVars>>
    \/ FwLock("caller", "Start") /\ UNCHANGED <<setVars, retryVars, cbVars, histVars>>
    \/ FwUnlock("caller") /\ UNCHANGED <<setVars, retryVars, cbVars, histVars>>

SpecStart == Init /\ [][NextStart]_vars

\* Goroutines calling DiffAndEmplace on one ThreadSafeSet, in any interleaving.
NextSet ==
    \/ \E p \in SetProcs, other \in SUBSET Methods : SetCall(p, other) /\ UNCHANGED <<fwVars, monVars, lastOp, retryVars, extVars>>
    \/ \E p \in SetProcs : SetLock(p) /\ UNCHANGED <<fwVars, monVars, lastOp, retryVars, extVars>>
    \/ \E p \in SetProcs : SetDiff(p) /\ UNCHANGED <<fwVars, monVars, lastOp, retryVars, extVars>>
    \/ \E p \in SetProcs : SetEmplace(p) /\ UNCHANGED <<fwVars, monVars, lastOp, retryVars, extVars>>
    \/ \E p \in SetProcs : SetUnlock(p) /\ UNCHANGED <<fwVars, monVars, lastOp, retryVars, extVars>>

SpecSet == Init /\ [][NextSet]_vars

\* The retry onChangeCallback run for one config generation after another: a
\* run starts when no other is in progress.
NextRetry ==
    \/ \E p \in RetryProcs, g \in RetryConfigs :
         (\A q \in RetryProcs : rpc[q] = "idle") /\ RetryBegin(p, g) /\ UNCHANGED <<fwVars, monVars, lastOp, spc, sarg, sout, extVars>>
    \/ \E p \in RetryProcs, m \in Methods : RetryRange(p, m) /\ UNCHANGED <<fwVars, monVars, lastOp, spc, sarg, sout, extVars>>
    \/ \E p \in RetryProcs : RetryDiff(p) /\ UNCHANGED <<fwVars, monVars, lastOp, spc, sarg, sout, extVars>>
    \/ \E p \in RetryProcs : RetryDelete(p) /\ UNCHANGED <<fwVars, monVars, lastOp, spc, sarg, sout, extVars>>
    \/ \E p \in RetryProcs : RetryReturn(p) /\ UNCHANGED <<fwVars, monVars, lastOp, spc, sarg, sout, extVars>>

SpecRetry == Init /\ [][NextRetry]_vars

\* Runs of the retry onChangeCallback on the dispatch goroutine and on a
\* goroutine that calls CallOnceAll, interleaved: neither the FileWatcher nor
\* the ConfigMonitor holds a lock while callbacks run.
NextRetryConc ==
    \/ \E p \in RetryProcs, g \in ValidRetryConfigs :
         RetryBegin(p, g) /\ UNCHANGED <<fwVars, monVars, lastOp, spc, sarg, sout, extVars>>
    \/ \E p \in RetryProcs, m \in Methods : RetryRange(p, m) /\ UNCHANGED <<fwVars, monVars, lastOp, spc, sarg, sout, extVars>>
    \/ \E p \in RetryProcs : RetryDiff(p) /\ UNCHANGED <<fwVars, monVars, lastOp, spc, sarg, sout, extVars>>
    \/ \E p \in RetryProcs : RetryDelete(p) /\ UNCHANGED <<fwVars, monVars, lastOp, spc, sarg, sout, extVars>>
    \/ \E p \in RetryProcs : RetryReturn(p) /\ UNCHANGED <<fwVars, monVars, lastOp, spc, sarg, sout, extVars>>

SpecRetryConc == Init /\ [][NextRetryConc]_vars

\* The circuit-breaker onChangeCallback run for one config generation after
\* another.
NextBreaker ==
    \/ \E g \in CbGenerations : CbBegin(g) /\ UNCHANGED <<fwVars, monVars, lastOp, setVars, retryVars, histVars, concVars>>
    \/ \E m \in CbMethods : CbRange(m) /\ UNCHANGED <<fwVars, monVars, lastOp, setVars, retryVars, histVars, concVars>>
    \/ CbDiff /\ UNCHANGED <<fwVars, monVars, lastOp, setVars, retryVars, histVars, concVars>>
    \/ CbReset /\ UNCHANGED <<fwVars, monVars, lastOp, setVars, retryVars, histVars, concVars>>
    \/ CbReturn /\ UNCHANGED <<fwVars, monVars, lastOp, setVars, retryVars, histVars, concVars>>

SpecBreaker == Init /\ [][NextBreaker]_vars

\* ------------------------------------------------------------------ claims

\* C1: FileWatcher.RegisterCallback(cb, key) with key already registered returns
\* an error and leaves the registry as it was, and every dispatch (CallOnceAll
\* by a caller or by the loop on a write event) invokes, for each key it
\* reaches, the callback the registry holds for it: all of them when no
\* callback panics.
C1_DuplicateKeyRejected ==
    /\ [][\A k \in FwKeys :
            (lastOp'.op = "FwRegisterCallback" /\ lastOp'.key = k /\ fwCallbacks[k] # NoCb)
                => (lastOp'.ret = "err" /\ fwCallbacks' = fwCallbacks)]_vars
    /\ [](lastOp.op \in {"CallOnceAll", "LoopWrite"} /\ lastOp.ret # "err" =>
            /\ \A p \in invoked : p[2] = fwCallbacks[p[1]]
            /\ lastOp.ret = "ok" =>
                 invoked = { <<k, fwCallbacks[k]>> : k \in Registered(fwCallbacks) })

\* A second registration under a key, with another callback, was rejected.
C1_Witness ==
    /\ lastOp.op = "FwRegisterCallback"
    /\ lastOp.ret = "err"
    /\ fwCallbacks[lastOp.key] \notin {NoCb, lastOp.cb}

\* C2: ConfigMonitor.RegisterCallback(cb, key) with key already in the monitor's
\* registry fails and does not overwrite the callback stored under key.
C2_MonitorDuplicateKeyRejected ==
    [][\A k \in MonKeys :
         (lastOp'.op = "MonRegisterCallback" /\ lastOp'.key = k /\ monCallbacks[k] # NoCb)
             => (lastOp'.ret = "err" /\ monCallbacks' = monCallbacks)]_vars

\* C3: DeregisterCallback(key) on the FileWatcher or the ConfigMonitor never
\* fails or panics; with key not registered it leaves the registry as it was,
\* with key registered it removes that key and no other.
C3_DeregisterIdempotent ==
    [][/\ \A k \in FwKeys :
            (lastOp'.op = "FwDeregisterCallback" /\ lastOp'.key = k) =>
                /\ lastOp'.ret \in {"ok", "warn"} /\ ~crashed'
                /\ fwCallbacks[k] = NoCb => fwCallbacks' = fwCallbacks
                /\ fwCallbacks' = [fwCallbacks EXCEPT ![k] = NoCb]
                /\ monCallbacks' = monCallbacks
       /\ \A k \in MonKeys :
            (lastOp'.op = "MonDeregisterCallback" /\ lastOp'.key = k) =>
                /\ lastOp'.ret \in {"ok", "warn"} /\ ~crashed'
                /\ monCallbacks[k] = NoCb => monCallbacks' = monCallbacks
                /\ monCallbacks' = [monCallbacks EXCEPT ![k] = NoCb]
                /\ fwCallbacks' = fwCallbacks]_vars

\* A key that is not registered was deregistered while another key is registered.
C3_Witness ==
    /\ lastOp.op = "FwDeregisterCallback"
    /\ lastOp.ret = "warn"
    /\ Registered(fwCallbacks) # {}
    /\ Registered(monCallbacks) # {}

\* C4: when parseHandler runs on file contents that do not decode, Config()
\* returns what it returned before and no consumer callback is invoked.
C4_StaleOnDecodeFailure ==
    [][(parseRes' # "none" /\ Decode(file).err) =>
          (Config' = Config /\ notified' = {})]_vars

\* parseHandler met a decode failure with a config stored and consumers registered.
C4_Witness ==
    /\ parseRes = "decodeErr"
    /\ Config # Nil
    /\ Registered(monCallbacks) # {}

\* C5: when parseHandler runs on a document that decodes but has no sub-config
\* for the monitor's key, a stored non-nil config stays and no consumer
\* callback is invoked.
C5_MissingKeyKeepsConfig ==
    [][(/\ parseRes' # "none"
        /\ ~Decode(file).err
        /\ GetConfig(Decode(file).mgr, MonKey) = Nil
        /\ Config # Nil) =>
          (Config' = Config /\ notified' = {})]_vars

\* C6: no stop request panics: neither StopWatching called by a user nor the
\* loop's own StopWatching on a Remove event closes the closed channel.
C6_DoubleStopHarmless ==
    lastOp.op \in {"StopWatching", "LoopRemove"} => lastOp.ret = "ok"

\* C7: DiffAndEmplace(New) on the current set Old returns exactly the keys of
\* Old \ New, each once, makes New the current set, and returns the slice it
\* built.
C7_DiffCorrect ==
    [][\A p \in SetProcs :
         /\ (spc[p] = "diff" /\ spc'[p] = "emplace") =>
               /\ Range(sout'[p]) = ts \ sarg[p]
               /\ Len(sout'[p]) = Cardinality(ts \ sarg[p])
         /\ (spc[p] = "emplace" /\ spc'[p] = "unlock") => ts' = sarg[p]
         /\ (spc[p] = "unlock" /\ spc'[p] = "idle") => (sout'[p] = sout[p] /\ ts' = ts)]_vars

\* A call is about to return a removed key after making a non-empty set current.
C7_Witness ==
    \E p \in SetProcs :
        /\ spc[p] = "unlock"
        /\ sout[p] # <<>>
        /\ ts = sarg[p]
        /\ ts # {}

\* C8: concurrent DiffAndEmplace calls on one set are atomic: at most one call
\* is between Lock and Unlock, nobody else changes the set while a call is
\* there, and the keys a call returns are the difference between the set it
\* replaces, as it is at the moment of the replacement, and its argument, so
\* the calls take effect one after another in the order of their replacements.
C8_DiffAndEmplaceAtomic ==
    /\ [](Cardinality({ p \in SetProcs : spc[p] \in {"diff", "emplace", "unlock"} }) <= 1)
    /\ [][\A p \in SetProcs :
            /\ (spc[p] = "emplace" /\ spc'[p] = "unlock") => Range(sout[p]) = ts \ sarg[p]
            /\ (spc[p] \in {"diff", "emplace"} /\ spc'[p] = spc[p]) => ts' = ts]_vars

\* Two calls with different arguments contend: one is about to replace a
\* non-empty set, the other waits for the lock.
C8_Witness ==
    \E p, q \in SetProcs :
        /\ spc[p] = "emplace"
        /\ spc[q] = "lock"
        /\ sarg[p] # sarg[q]
        /\ ts # {}

\* C9: when a run of the retry callback has finished for a generation, no method
\* that the generation lacks has a policy in the retry container; a generation
\* with a nil or an empty retry map lacks every method.
C9_AbsentMethodsRemoved ==
    \A p \in RetryProcs :
        rpc[p] = "done" =>
            \A m \in Methods : m \notin DOMAIN rcs[p].pol => container[m] = NoPolicy

\* Exactly one of BackupPolicy and FailurePolicy is set.
ExactlyOne(policy) == (policy.BackupPolicy = Nil) # (policy.FailurePolicy = Nil)

\* C10: in a run of the retry callback each iteration installs the method's
\* policy when exactly one of BackupPolicy and FailurePolicy is set and changes
\* nothing otherwise, and goes on to the next method or to the removal step;
\* the finished run has visited every method of the generation, has made them
\* the current set, holds every valid entry's policy and no policy for a method
\* the generation lacks.
C10_SingleMethodIsolation ==
    /\ [][\A p \in RetryProcs, m \in Methods :
            (rpc[p] = "range" /\ m \in todo[p] /\ m \notin todo'[p]) =>
                /\ container' = IF ExactlyOne(rcs[p].pol[m])
                                THEN [container EXCEPT ![m] = rcs[p].pol[m]]
                                ELSE container
                /\ todo'[p] = todo[p] \ {m}
                /\ rpc'[p] \in {"range", "diff"}]_vars
    /\ [](\A p \in RetryProcs :
            (rpc[p] = "done" /\ ~rcs[p].isNil) =>
                /\ todo[p] = {} /\ removed[p] = <<>>
                /\ rset[p] = DOMAIN rcs[p].pol /\ ts = rset[p]
                /\ \A m \in DOMAIN rcs[p].pol :
                     ExactlyOne(rcs[p].pol[m]) => container[m] = rcs[p].pol[m]
                /\ \A m \in Methods \ DOMAIN rcs[p].pol : container[m] = NoPolicy)

\* A finished run whose generation gave M1 both policies and M2 a failure
\* policy only: M2's is installed, M1 has none.
C10_Witness ==
    \E p \in RetryProcs :
        /\ rpc[p] = "done"
        /\ DOMAIN rcs[p].pol = Methods
        /\ rcs[p].pol["M1"] = [BackupPolicy |-> "b1", FailurePolicy |-> "f1"]
        /\ rcs[p].pol["M2"] = [BackupPolicy |-> Nil, FailurePolicy |-> "f2"]
        /\ container["M2"] = rcs[p].pol["M2"]
        /\ container["M1"] = NoPolicy

\* C11: when a run of the circuit-breaker onChangeCallback has finished, every
\* method of the generation it read has that generation's CBConfig installed
\* under the key toService "/" method, and every other method has either
\* nothing (it was never configured) or the default CBConfig; and no step ever
\* takes an installed configuration away, so a method of an earlier generation
\* that the new one lacks ends with the default.
C11_BreakerReconciled ==
    /\ [](cpc = "done" =>
            \A m \in CbMethods :
              LET k == ToService \o <<"/">> \o m
              IN  IF m \in DOMAIN configs
                  THEN suite[k] = configs[m]
                  ELSE suite[k] \in {NoCBConfig, DefaultCBConfig})
    /\ [][\A m \in CbMethods :
            LET k == ToService \o <<"/">> \o m
            IN  suite[k] # NoCBConfig => suite'[k] # NoCBConfig]_vars

\* A run has finished that installed one method's configuration and reset
\* the other, which an earlier generation had configured.
C11_Witness ==
    /\ cpc = "done"
    /\ DOMAIN configs = {<<"a">>}
    /\ suite[<<"s", "v", "/", "a">>] = "c2"
    /\ suite[<<"s", "v", "/", "b">>] = DefaultCBConfig

\* C14: once the dispatch goroutine has received a Remove event it performs no
\* CallOnceAll any more, for a Write event that was pending or for one that
\* arrives later, and a goroutine that has exited is not started again.
C14_RemovalTerminal ==
    [][removeHandled =>
         /\ lastOp'.op # "LoopWrite"
         /\ (loop = "exited" => loop' = "exited")]_vars

\* C15: a callback that panics in a dispatch of the loop does not crash the
\* process and does not end the loop: the goroutine is still running after
\* the dispatch, so that a later Write event is dispatched.
C15_PanicKeepsLoop ==
    (lastOp.op = "LoopWrite" /\ lastOp.ret = "panicCb") => (~crashed /\ loop = "running")

\* C17: the OS subscription is closed exactly when the dispatch goroutine has
\* exited, and once done is closed with the goroutine running (StopWatching
\* was called), the goroutine exits, whatever Write events keep arriving; a
\* crash of the process ends it as well.
C17_StopLiveness ==
    /\ [](watcher = "closed" <=> loop = "exited")
    /\ ((done = "closed" /\ loop = "running") ~> (loop = "exited" \/ crashed))

\* StopWatching was called by a user, the loop took the case <-fw.done with a
\* Write event still pending, and the subscription is closed.
C17_Witness ==
    /\ lastOp.op = "LoopDone"
    /\ ~removeHandled
    /\ loop = "exited"
    /\ watcher = "closed"
    /\ events # <<>> /\ Head(events) = "Write"

\* C16: ConfigMonitor.Stop() does not fail; after it the monitor's registry is
\* empty and the monitor's key is absent from the FileWatcher's registry; the
\* FileWatcher's done channel, goroutine and subscription and the
\* registrations under other keys are as before; and Stop() on a monitor that
\* has nothing registered changes neither registry.
C16_StopEffectAndFrame ==
    [][lastOp'.op = "MonStop" =>
         /\ lastOp'.ret = "ok"
         /\ ~crashed'
         /\ Registered(monCallbacks') = {}
         /\ fwCallbacks'[MonKey] = NoCb
         /\ \A k \in FwKeys \ {MonKey} : fwCallbacks'[k] = fwCallbacks[k]
         /\ UNCHANGED <<done, loop, watcher>>
         /\ (Registered(monCallbacks) = {} /\ fwCallbacks[MonKey] = NoCb
               => UNCHANGED <<monCallbacks, fwCallbacks, config>>)]_vars

\* Stop() has returned on a started monitor (its parse handler was registered,
\* a config is stored) while the FileWatcher is watching and another consumer
\* is registered under another key.
C16_Witness ==
    /\ lastOp.op = "MonStop"
    /\ config # Nil
    /\ loop = "running"
    /\ watcher = "watching"
    /\ fwCallbacks["k2"] = "cbRaw"
    /\ fwCallbacks[MonKey] = NoCb
    /\ Registered(monCallbacks) = {}

\* C19: when a run of the retry onChangeCallback for a generation G has
\* finished (runs taken one at a time), every method that has a policy in the
\* retry container is a method of G and has exactly the policy G gives it.
\* Stated for a G with a retry map; C9 is about a G without one.
C19_InstalledPoliciesCurrent ==
    \A p \in RetryProcs :
      (rpc[p] = "done" /\ ~rcs[p].isNil) =>
        \A m \in Methods :
          container[m] # NoPolicy =>
            (m \in DOMAIN rcs[p].pol /\ container[m] = rcs[p].pol[m])

\* C20: when runs of the retry onChangeCallback, each for a generation with
\* valid entries only, interleave, then once none is in progress the methods
\* that hold a policy in the retry container are the ThreadSafeSet's keys.
C20_PassesLinearizable ==
    (\A p \in RetryProcs : rpc[p] \in {"idle", "done"}) =>
      { m \in Methods : container[m] # NoPolicy } = ts

\* C12: the parse handler of one watcher is never running on two goroutines
\* at once, whether it was entered from the dispatch loop's CallOnceAll, from
\* a user's CallOnceAll or CallOnceSpecific, or from ConfigMonitor.Start.
C12_NoOverlappingParses ==
    ~(\E t, u \in Threads : t # u /\ thr[t].st = "parse" /\ thr[u].st = "parse")

\* C13: no two goroutines access the same shared object (a callback registry,
\* the stored config) at the same time with one of them writing, unless both
\* hold the object's lock.
C13_NoDataRace ==
    \A t, u \in Threads :
      t # u =>
        \A a \in Accesses(t), b \in Accesses(u) :
          ~(a.obj = b.obj /\ (a.write \/ b.write) /\ ~(a.locked /\ b.locked))

\* C18: with the FileWatcher watching before Start() is called, once Start()
\* has registered the parse handler, no call is in progress, no event is
\* pending and the file decodes, the stored config is the sub-config of the
\* file's contents.
C18_NoLostUpdate ==
    ( /\ \A t \in Threads : thr[t] = NoCall
      /\ fwCallbacks[MonKey] = ParseCb
      /\ loop = "running"
      /\ events = <<>>
      /\ ~Decode(file).err )
    => Config = GetConfig(Decode(file).mgr, MonKey)

====
